---- MODULE Spec2Model ----
(***************************************************************************)
(* A model of mds-provider's payload file reader (mds/files.py) and of its *)
(* version-aware codecs (mds/encoding.py).                                 *)
(*                                                                         *)
(* Two specifications share the module:                                    *)
(*   Spec       a ProviderDataFiles instance over a bounded set of loaded  *)
(*              JSON documents, and one call of load_payloads,             *)
(*              load_records or load_dataframe on it;                      *)
(*   CodecSpec  the construction of TimestampEncoder, TimestampDecoder and *)
(*              JsonEncoder objects and the calls made on them.            *)
(***************************************************************************)
EXTENDS Integers, Sequences, FiniteSets, TLC

VARIABLES
    docs,           \* the JSON documents json.load / requests.get yield, in read order
    has_sources,    \* whether any source (argument or self.sources) names something to read
    record_type,    \* self.record_type of the ProviderDataFiles instance
    call,           \* the call made: [op, args], or NoCall
    result,         \* what the call did: a Return(..) or a Raise(..), or NoResult
    ts_encoder,     \* the TimestampEncoder constructed, or NoObject
    ts_decoder,     \* the TimestampDecoder constructed, or NoObject
    json_encoder,   \* the JsonEncoder constructed, or NoObject
    output_dir,     \* the files of the directory dump_payloads writes to: {[path, content]}
    opened          \* the paths dump_payloads opened for writing, in order

vars == <<docs, has_sources, record_type, call, result,
          ts_encoder, ts_decoder, json_encoder, output_dir, opened>>

(***************************************************************************)
(* Bounds.                                                                 *)
(***************************************************************************)
\* The documents read are at most MaxDocs, their pages together at most MaxPages.
MaxDocs == 2
MaxPages == 3

\* The payloads handed to one dump_payloads call are at most MaxPayloads.
MaxPayloads == 3

(***************************************************************************)
(* Python values.                                                          *)
(***************************************************************************)
None == "None"

\* A name no object is bound to yet.
NoObject == [class |-> "NoneType"]

NoCall == [op |-> "none"]
NoResult == [kind |-> "none"]

\* A returned list, a returned (version, x) tuple, a raised exception.
List(items) == [type |-> "list", items |-> items]
Tuple(version, second) == [type |-> "tuple", version |-> version, second |-> second]
Return(value) == [kind |-> "return", value |-> value]
Raise(exc) == [kind |-> "raise", exc |-> exc]
RaiseVersions(exc, actual, expected) ==
    [kind |-> "raise", exc |-> exc, actual |-> actual, expected |-> expected]

STATUS_CHANGES == "status_changes"
TRIPS == "trips"
SCHEMA_TYPES == {STATUS_CHANGES, TRIPS}

(***************************************************************************)
(* Versions (mds/versions.py: a dotted string parsed to an ordered triple, *)
(* compared structurally).                                                 *)
(***************************************************************************)
VersionStrings == {"0.1.0", "0.2.0", "0.3.0", "0.3.1", "0.4.0", "0.4.1", "1.0.0"}

Version(s) ==
    CASE s = "0.1.0" -> <<0, 1, 0>>
      [] s = "0.2.0" -> <<0, 2, 0>>
      [] s = "0.3.0" -> <<0, 3, 0>>
      [] s = "0.3.1" -> <<0, 3, 1>>
      [] s = "0.4.0" -> <<0, 4, 0>>
      [] s = "0.4.1" -> <<0, 4, 1>>
      [] s = "1.0.0" -> <<1, 0, 0>>

VersionLt(a, b) ==
    \/ a[1] < b[1]
    \/ a[1] = b[1] /\ a[2] < b[2]
    \/ a[1] = b[1] /\ a[2] = b[2] /\ a[3] < b[3]

VersionEq(a, b) == a = b

(***************************************************************************)
(* The loaded documents. A document is a single payload dict (one page) or *)
(* a list of page dicts; a page is {version, data: {record_type: [..]}}.   *)
(* Every record is tagged with the place it was read from (document, page, *)
(* position), so that records are pairwise distinct.                       *)
(***************************************************************************)
FileVersions == {"0.3.1", "0.4.0", "0.4.1"}

\* "sc": data holds two status_changes; "mixed": data holds an empty
\* status_changes list and two trips.
PageKinds == {"sc", "mixed"}
PageShapes == [version : FileVersions, kind : PageKinds]

Rec(d, p, k) == [id |-> <<d, p, k>>]

PageData(kind, d, p) ==
    IF kind = "sc"
    THEN [status_changes |-> <<Rec(d, p, 1), Rec(d, p, 2)>>]
    ELSE [status_changes |-> <<>>, trips |-> <<Rec(d, p, 1), Rec(d, p, 2)>>]

MkPage(shape, d, p) == [version |-> shape.version, data |-> PageData(shape.kind, d, p)]

\* A grouping gives each document its form: -1 a dict, k >= 0 a list of k pages.
PagesOf(x) == IF x = -1 THEN 1 ELSE x

RECURSIVE TotalPages(_)
TotalPages(g) == IF g = <<>> THEN 0 ELSE PagesOf(Head(g)) + TotalPages(Tail(g))

Groupings ==
    {g \in UNION {[1..m -> -1..MaxPages] : m \in 0..MaxDocs} : TotalPages(g) <= MaxPages}

Build(g, flat) ==
    [d \in 1..Len(g) |->
        [list |-> g[d] # -1,
         pages |-> [p \in 1..PagesOf(g[d]) |->
                      MkPage(flat[TotalPages(SubSeq(g, 1, d - 1)) + p], d, p)]]]

\* A dict (one page) as an element of a Python list.
Dict(page) == [list |-> FALSE, pages |-> <<page>>]

(***************************************************************************)
(* ProviderDataFiles.load_payloads                                         *)
(***************************************************************************)
\* filter(lambda p: record_type in p["data"], payload)
MatchingPages(pages, rt) == SelectSeq(pages, LAMBDA p : rt \in DOMAIN p.data)

DictsOf(pages) == [i \in 1..Len(pages) |-> Dict(pages[i])]

\* The dict branch of the filter: "data" in payload and record_type in payload["data"].
DictMatches(page, rt) == "data" \in DOMAIN page /\ rt \in DOMAIN page.data

\* What a list payload contributes to the filtered list.
FilterList_keep_all(pages, rt) == DictsOf(pages)

FilterList(pages, rt) == DictsOf(MatchingPages(pages, rt))

RECURSIVE FilterPayloads(_, _)
FilterPayloads(data, rt) ==
    IF data = <<>> THEN <<>>
    ELSE LET payload == Head(data)
             rest == FilterPayloads(Tail(data), rt)
         IN  IF payload.list
             THEN FilterList(payload.pages, rt) \o rest
             ELSE IF DictMatches(payload.pages[1], rt)
                  THEN <<payload>> \o rest
                  ELSE rest

RECURSIVE FlattenPayloads(_)
FlattenPayloads(data) ==
    IF data = <<>> THEN <<>>
    ELSE LET payload == Head(data)
             rest == FlattenPayloads(Tail(data))
         IN  IF payload.list
             THEN DictsOf(payload.pages) \o rest
             ELSE <<payload>> \o rest

\* rt_arg is None or a schema type; a source passed in its place is one more
\* document of docs.
load_payloads(self, rt_arg, flatten) ==
    IF ~self.has_sources THEN Raise("IndexError")
    ELSE LET rt == IF rt_arg # None THEN rt_arg ELSE self.record_type
             data == self.docs
             filtered == IF rt # None THEN FilterPayloads(data, rt) ELSE data
             flattened == IF flatten THEN FlattenPayloads(filtered) ELSE filtered
         IN  Return(List(flattened))

(***************************************************************************)
(* ProviderDataFiles.load_records                                          *)
(***************************************************************************)
record_type_or_raise(self, rt_arg) ==
    LET rt == IF rt_arg # None THEN rt_arg ELSE self.record_type
    IN  IF rt \in SCHEMA_TYPES THEN Return(rt) ELSE Raise("ValueError")

\* The version of the initial payload: of its first page when it is a list.
InitialVersion(payloads) == Version(payloads[1].pages[1].version)

\* The pages of every payload, a dict payload taken as a list of one page.
RECURSIVE PagesOfPayloads(_)
PagesOfPayloads(payloads) ==
    IF payloads = <<>> THEN <<>>
    ELSE Head(payloads).pages \o PagesOfPayloads(Tail(payloads))

\* page["data"][record_type] raises KeyError on a page without the key.
LacksKey(pages, rt) == \E i \in 1..Len(pages) : rt \notin DOMAIN pages[i].data

\* One (version string, record list) pair per page.
CollectPairs(pages, rt) ==
    [i \in 1..Len(pages) |-> <<pages[i].version, pages[i].data[rt]>>]

\* all([Version(v) == version for v,_ in _payloads])
AllVersionsMatch(pairs, version) ==
    \A i \in 1..Len(pairs) : VersionEq(Version(pairs[i][1]), version)

\* [Version(v) for v,_ in _payloads if Version(v) != version][0]
Unexpected_last(pairs, version) ==
    LET bad == SelectSeq(pairs, LAMBDA r : ~VersionEq(Version(r[1]), version))
    IN  Version(bad[Len(bad)][1])

Unexpected(pairs, version) ==
    LET bad == SelectSeq(pairs, LAMBDA r : ~VersionEq(Version(r[1]), version))
    IN  Version(bad[1][1])

\* [item for _,data in _payloads for item in data]
RECURSIVE MergeRecords_prepend(_)
MergeRecords_prepend(pairs) ==
    IF pairs = <<>> THEN <<>> ELSE MergeRecords_prepend(Tail(pairs)) \o Head(pairs)[2]

RECURSIVE MergeRecords(_)
MergeRecords(pairs) ==
    IF pairs = <<>> THEN <<>> ELSE Head(pairs)[2] \o MergeRecords(Tail(pairs))

\* [(Version(r[0]), r[1]) for r in _payloads]
VersionedPairs(pairs) == [i \in 1..Len(pairs) |-> <<Version(pairs[i][1]), pairs[i][2]>>]

\* The branch on flatten that ends load_records.
Reconcile_always_check(pairs, version, flatten) ==
    IF ~AllVersionsMatch(pairs, version)
    THEN RaiseVersions("UnexpectedVersionError", Unexpected(pairs, version), version)
    ELSE IF flatten THEN Return(Tuple(version, MergeRecords(pairs)))
         ELSE Return(List(VersionedPairs(pairs)))

Reconcile(pairs, version, flatten) ==
    IF flatten
    THEN IF ~AllVersionsMatch(pairs, version)
         THEN RaiseVersions("UnexpectedVersionError", Unexpected(pairs, version), version)
         ELSE Return(Tuple(version, MergeRecords(pairs)))
    ELSE Return(List(VersionedPairs(pairs)))

\* The guard on an empty payload list: load_records returns the list itself.
EmptyGuard_off(payloads) == FALSE

EmptyGuard(payloads) == Len(payloads) < 1

load_records(self, rt_arg, flatten) ==
    LET rt == record_type_or_raise(self, rt_arg)
    IN  IF rt.kind = "raise" THEN rt
        ELSE LET loaded == load_payloads(self, rt.value, FALSE)
             IN  IF loaded.kind = "raise" THEN loaded
                 ELSE LET payloads == loaded.value.items
                          pages == PagesOfPayloads(payloads)
                      IN  IF EmptyGuard(payloads) THEN Return(List(payloads))
                          \* payloads[0], and payloads[0][0] of a list payload
                          ELSE IF Len(payloads) = 0 \/ Len(payloads[1].pages) = 0
                               THEN Raise("IndexError")
                          ELSE IF LacksKey(pages, rt.value) THEN Raise("KeyError")
                          ELSE Reconcile(CollectPairs(pages, rt.value),
                                         InitialVersion(payloads), flatten)

(***************************************************************************)
(* ProviderDataFiles.load_dataframe                                        *)
(***************************************************************************)
\* pd.DataFrame.from_records(records): the frame holds the records as its rows.
DataFrame(records) == [type |-> "DataFrame", rows |-> records]

\* Version(v) of a value that is a Version already.
VersionOfVersion(v) == v

load_dataframe(self, rt_arg, flatten) ==
    LET rt == record_type_or_raise(self, rt_arg)
    IN  IF rt.kind = "raise" THEN rt
        ELSE LET loaded == load_records(self, rt.value, FALSE)
             IN  IF loaded.kind = "raise" THEN loaded
                 ELSE LET records == loaded.value.items
                      IN  IF Len(records) = 0 THEN Return(List(records))
                          ELSE LET version == VersionOfVersion(records[1][1])
                               IN  IF flatten
                                   THEN IF ~(\A i \in 1..Len(records) :
                                               VersionEq(VersionOfVersion(records[i][1]), version))
                                        THEN RaiseVersions("UnexpectedVersionError",
                                                 LET bad == SelectSeq(records, LAMBDA r :
                                                         ~VersionEq(VersionOfVersion(r[1]), version))
                                                 IN  VersionOfVersion(bad[1][1]),
                                                 version)
                                        ELSE Return(Tuple(version, DataFrame(MergeRecords(records))))
                                   ELSE Return(List([i \in 1..Len(records) |->
                                            <<VersionOfVersion(records[i][1]),
                                              DataFrame(records[i][2])>>]))

(***************************************************************************)
(* The file reader's state machine.                                        *)
(***************************************************************************)
Self == [record_type |-> record_type, has_sources |-> has_sources, docs |-> docs]

RecordTypeArgs == {None} \cup SCHEMA_TYPES

FilesInit ==
    /\ \E g \in Groupings : \E flat \in [1..TotalPages(g) -> PageShapes] :
          docs = Build(g, flat)
    /\ has_sources \in (IF docs = <<>> THEN BOOLEAN ELSE {TRUE})
    /\ record_type = None
    /\ call = NoCall
    /\ result = NoResult
    /\ ts_encoder = NoObject
    /\ ts_decoder = NoObject
    /\ json_encoder = NoObject
    /\ output_dir = {}
    /\ opened = <<>>

CallArgs(op, rt, flatten) == [op |-> op, record_type |-> rt, flatten |-> flatten]

LoadPayloads ==
    /\ call = NoCall
    /\ \E rt \in RecordTypeArgs, flatten \in BOOLEAN :
          /\ call' = CallArgs("load_payloads", rt, flatten)
          /\ result' = load_payloads(Self, rt, flatten)
    /\ UNCHANGED <<output_dir, opened, docs, has_sources, record_type, ts_encoder, ts_decoder, json_encoder>>

LoadRecords ==
    /\ call = NoCall
    /\ \E rt \in RecordTypeArgs, flatten \in BOOLEAN :
          /\ call' = CallArgs("load_records", rt, flatten)
          /\ result' = load_records(Self, rt, flatten)
    /\ UNCHANGED <<output_dir, opened, docs, has_sources, record_type, ts_encoder, ts_decoder, json_encoder>>

LoadDataframe ==
    /\ call = NoCall
    /\ \E rt \in RecordTypeArgs, flatten \in BOOLEAN :
          /\ call' = CallArgs("load_dataframe", rt, flatten)
          /\ result' = load_dataframe(Self, rt, flatten)
    /\ UNCHANGED <<output_dir, opened, docs, has_sources, record_type, ts_encoder, ts_decoder, json_encoder>>

Next == LoadPayloads \/ LoadRecords \/ LoadDataframe

Spec == FilesInit /\ [][Next]_vars

(***************************************************************************)
(* Text and numbers of the codecs. A Python str is a sequence of           *)
(* characters; a datetime is a whole number of seconds since the epoch and *)
(* a millisecond part (timestamps are truncated to milliseconds, and lie   *)
(* within the epoch's first day, in UTC).                                   *)
(***************************************************************************)
Str(chars) == [type |-> "str", chars |-> chars]
IntValue(n) == [type |-> "int", n |-> n]
\* The float whole + thousandths / 1000.
FloatValue(whole, thousandths) ==
    [type |-> "float", whole |-> whole, thousandths |-> thousandths]
Datetime(sec, ms) == [type |-> "datetime", sec |-> sec, ms |-> ms]

DigitChars == <<"0", "1", "2", "3", "4", "5", "6", "7", "8", "9">>

IsDigit(c) == \E i \in 1..10 : DigitChars[i] = c

DigitValue(c) == (CHOOSE i \in 1..10 : DigitChars[i] = c) - 1

\* str(n) of a natural number.
RECURSIVE Digits(_)
Digits(n) ==
    IF n < 10 THEN <<DigitChars[n + 1]>>
    ELSE Digits(n \div 10) \o <<DigitChars[(n % 10) + 1]>>

\* n in two decimal places, n in three.
TwoDigits(n) == <<DigitChars[(n \div 10) + 1], DigitChars[(n % 10) + 1]>>
ThreeDigits(n) == <<DigitChars[(n \div 100) + 1]>> \o TwoDigits(n % 100)

\* The number a string of digits denotes.
RECURSIVE NumberOf(_)
NumberOf(chars) ==
    IF chars = <<>> THEN 0
    ELSE 10 * NumberOf(SubSeq(chars, 1, Len(chars) - 1)) + DigitValue(chars[Len(chars)])

AllDigits(chars) == chars # <<>> /\ \A i \in 1..Len(chars) : IsDigit(chars[i])

\* int(data): of an int, of a float (truncated), and of a str holding digits
\* only; ValueError for any other str.
PyInt(data) ==
    CASE data.type = "int" -> Return(data.n)
      [] data.type = "float" -> Return(data.whole)
      [] data.type = "str" ->
            IF AllDigits(data.chars) THEN Return(NumberOf(data.chars))
            ELSE Raise("ValueError")
      [] OTHER -> Raise("TypeError")

\* int(data / 1000.0): a str cannot be divided.
PyIntOfThousandth(data) ==
    CASE data.type = "int" -> Return(data.n \div 1000)
      [] data.type = "float" -> Return(data.whole \div 1000)
      [] OTHER -> Raise("TypeError")

\* datetime.utcfromtimestamp(n) of a whole number of seconds.
utcfromtimestamp(n) == Datetime(n, 0)

\* datetime.isoformat(): the microseconds are written when they are not 0.
ClockText(sec) ==
    TwoDigits(sec \div 3600) \o <<":">> \o TwoDigits((sec % 3600) \div 60)
        \o <<":">> \o TwoDigits(sec % 60)

EpochDay == <<"1", "9", "7", "0", "-", "0", "1", "-", "0", "1">>

IsoFormat(t) ==
    EpochDay \o <<"T">> \o ClockText(t.sec)
        \o (IF t.ms = 0 THEN <<>> ELSE <<".">> \o ThreeDigits(t.ms) \o <<"0", "0", "0">>)

\* dateutil.parser.parse(data). Of a non-str it raises; an ISO 8601 text of
\* the epoch's first day is read field by field; any other text is left as
\* what dateutil makes of it (a ParserError, or a date read from the digits
\* as calendar fields), which is never an offset from the epoch.
IsIsoText(chars) ==
    /\ Len(chars) \in {19, 26}
    /\ SubSeq(chars, 1, 10) = EpochDay
    /\ chars[11] = "T"
    /\ chars[14] = ":" /\ chars[17] = ":"
    /\ \A i \in {12, 13, 15, 16, 18, 19} : IsDigit(chars[i])
    /\ Len(chars) = 26 => /\ chars[20] = "."
                          /\ \A i \in 21..26 : IsDigit(chars[i])

ParseIsoText(chars) ==
    Datetime(NumberOf(SubSeq(chars, 12, 13)) * 3600
                 + NumberOf(SubSeq(chars, 15, 16)) * 60
                 + NumberOf(SubSeq(chars, 18, 19)),
             IF Len(chars) = 26 THEN NumberOf(SubSeq(chars, 21, 23)) ELSE 0)

DateutilOther(chars) == [kind |-> "dateutil", text |-> chars]

dateutil_parse(data) ==
    IF data.type # "str" THEN Raise("TypeError")
    ELSE IF IsIsoText(data.chars) THEN Return(ParseIsoText(data.chars))
    ELSE DateutilOther(data.chars)

(***************************************************************************)
(* Version.mds_lower(), Version.mds_upper() and Version.unsupported.       *)
(***************************************************************************)
mds_lower == Version("0.2.0")
mds_upper == Version("0.4.1")

Unsupported(v) == VersionLt(v, mds_lower)
Deprecated(v) == VersionLt(mds_upper, v)

(***************************************************************************)
(* TimestampEncoder                                                        *)
(***************************************************************************)
\* kwargs.get(key, default): None stands for a keyword that is not passed.
KwargOr(arg, default) == IF arg = None THEN default ELSE arg

\* Version(kwargs.get("version", Version.mds_lower())) of a version string.
VersionKwarg(arg) == IF arg = None THEN VersionOfVersion(mds_lower) ELSE Version(arg)

\* The constructors below take the version keyword as VersionKwarg gives it.
TimestampEncoder_init(version, date_format) ==
    LET self == [class |-> "TimestampEncoder",
                 date_format |-> KwargOr(date_format, "unix"),
                 version |-> version]
    IN  IF Unsupported(self.version)
        THEN RaiseVersions("UnsupportedVersionError", self.version, self.version)
        ELSE Return(self)

\* The name obj is bound neither in encode nor in the module: reading it
\* raises NameError.
obj_of_encode == Raise("NameError")

TimestampEncoder_encode(self, data) ==
    IF self.date_format = "unix"
    THEN IF VersionLt(self.version, Version("0.3.0"))
         THEN obj_of_encode
         ELSE obj_of_encode
    ELSE IF self.date_format = "iso8601"
    THEN obj_of_encode
    ELSE IF self.date_format # None
    THEN obj_of_encode
    ELSE obj_of_encode

(***************************************************************************)
(* TimestampDecoder                                                        *)
(***************************************************************************)
TimestampDecoder_init(version) ==
    Return([class |-> "TimestampDecoder", version |-> version])

TimestampDecoder_decode(self, data) ==
    LET number == IF VersionLt(self.version, Version("0.3.0"))
                  THEN PyInt(data)
                  ELSE PyIntOfThousandth(data)
    IN  IF number.kind = "return"
        THEN Return(utcfromtimestamp(number.value))
        ELSE dateutil_parse(data)

(***************************************************************************)
(* JsonEncoder                                                             *)
(***************************************************************************)
JsonEncoder_init(version, date_format) ==
    LET self_date_format == KwargOr(date_format, "unix")
        self_version == version
        timestamp_encoder == TimestampEncoder_init(VersionOfVersion(self_version), None)
    IN  IF timestamp_encoder.kind = "raise" THEN timestamp_encoder
        ELSE Return([class |-> "JsonEncoder",
                     date_format |-> self_date_format,
                     version |-> self_version,
                     timestamp_encoder |-> timestamp_encoder.value])

\* str(Version)
VersionText(v) == Digits(v[1]) \o <<".">> \o Digits(v[2]) \o <<".">> \o Digits(v[3])

JsonEncoder_default(self, obj) ==
    CASE obj.type = "datetime" -> TimestampEncoder_encode(self.timestamp_encoder, obj)
      [] obj.type = "Path" -> Return(Str(obj.chars))
      [] obj.type \in {"Point", "Polygon"} -> Return([type |-> "Feature", geometry |-> obj])
      [] obj.type = "tuple" -> Return(List(obj.items))
      [] obj.type = "UUID" -> Return(Str(obj.chars))
      [] obj.type = "Version" -> Return(Str(VersionText(obj.version)))
      [] OTHER -> Raise("TypeError")

(***************************************************************************)
(* The codecs' state machine.                                              *)
(***************************************************************************)
\* 0.1.0 is below the floor, 0.2.0 below 0.3.0, 1.0.0 above the ceiling.
CodecVersions == {"0.1.0", "0.2.0", "0.4.0", "1.0.0"}
DateFormats == {"unix", "iso8601", "%H:%M:%S"}

Timestamps == {Datetime(sec, ms) : sec \in {0, 1, 3661}, ms \in {0, 234}}

\* repr of the float t.sec + t.ms / 1000, as str(datetime.timestamp()) gives it.
RECURSIVE StripZeros(_)
StripZeros(chars) ==
    IF Len(chars) > 1 /\ chars[Len(chars)] = "0"
    THEN StripZeros(SubSeq(chars, 1, Len(chars) - 1))
    ELSE chars

SecondsText(t) == Digits(t.sec) \o <<".">> \o StripZeros(ThreeDigits(t.ms))

MillisText(t) == Digits(t.sec * 1000 + t.ms)

\* What a decoder is handed: seconds and milliseconds as numbers and as
\* strings of digits, fractional seconds as text, ISO 8601 text.
DecodeInputs ==
    UNION {{IntValue(t.sec), IntValue(t.sec * 1000 + t.ms), FloatValue(t.sec, t.ms),
            Str(Digits(t.sec)), Str(MillisText(t)),
            Str(SecondsText(t)), Str(IsoFormat(t))} : t \in Timestamps}

JsonObjects ==
    Timestamps
        \cup {[type |-> "Path", chars |-> <<"a", "/", "b">>],
              [type |-> "Point", x |-> 1, y |-> 2],
              [type |-> "tuple", items |-> <<1, 2>>],
              [type |-> "UUID", chars |-> <<"a", "b", "-", "1">>],
              [type |-> "Version", version |-> Version("0.4.0")],
              [type |-> "set"]}

CodecInit ==
    /\ docs = <<>>
    /\ has_sources = FALSE
    /\ record_type = None
    /\ call = NoCall
    /\ result = NoResult
    /\ ts_encoder = NoObject
    /\ ts_decoder = NoObject
    /\ json_encoder = NoObject
    /\ output_dir = {}
    /\ opened = <<>>

Constructed(r, old) == IF r.kind = "return" THEN r.value ELSE old

NewTimestampEncoder ==
    /\ ts_encoder = NoObject
    /\ \E version \in CodecVersions \cup {None}, date_format \in DateFormats \cup {None} :
          LET r == TimestampEncoder_init(VersionKwarg(version), date_format)
          IN  /\ call' = [op |-> "TimestampEncoder", version |-> version,
                          date_format |-> date_format]
              /\ result' = r
              /\ ts_encoder' = Constructed(r, ts_encoder)
    /\ UNCHANGED <<output_dir, opened, docs, has_sources, record_type, ts_decoder, json_encoder>>

NewTimestampDecoder ==
    /\ ts_decoder = NoObject
    /\ \E version \in CodecVersions \cup {None} :
          LET r == TimestampDecoder_init(VersionKwarg(version))
          IN  /\ call' = [op |-> "TimestampDecoder", version |-> version]
              /\ result' = r
              /\ ts_decoder' = Constructed(r, ts_decoder)
    /\ UNCHANGED <<output_dir, opened, docs, has_sources, record_type, ts_encoder, json_encoder>>

NewJsonEncoder ==
    /\ json_encoder = NoObject
    /\ \E version \in CodecVersions \cup {None}, date_format \in DateFormats \cup {None} :
          LET r == JsonEncoder_init(VersionKwarg(version), date_format)
          IN  /\ call' = [op |-> "JsonEncoder", version |-> version,
                          date_format |-> date_format]
              /\ result' = r
              /\ json_encoder' = Constructed(r, json_encoder)
    /\ UNCHANGED <<output_dir, opened, docs, has_sources, record_type, ts_encoder, ts_decoder>>

Encode ==
    /\ ts_encoder # NoObject
    /\ \E t \in Timestamps :
          /\ call' = [op |-> "encode", data |-> t]
          /\ result' = TimestampEncoder_encode(ts_encoder, t)
    /\ UNCHANGED <<output_dir, opened, docs, has_sources, record_type, ts_encoder, ts_decoder, json_encoder>>

Decode ==
    /\ ts_decoder # NoObject
    /\ \E data \in DecodeInputs :
          /\ call' = [op |-> "decode", data |-> data]
          /\ result' = TimestampDecoder_decode(ts_decoder, data)
    /\ UNCHANGED <<output_dir, opened, docs, has_sources, record_type, ts_encoder, ts_decoder, json_encoder>>

\* decode(encode(t)) with an encoder and a decoder of one version.
EncodeDecode ==
    /\ ts_encoder # NoObject
    /\ ts_decoder # NoObject
    /\ ts_encoder.version = ts_decoder.version
    /\ \E t \in Timestamps :
          LET encoded == TimestampEncoder_encode(ts_encoder, t)
          IN  /\ call' = [op |-> "encode_decode", data |-> t]
              /\ result' = IF encoded.kind = "raise" THEN encoded
                           ELSE TimestampDecoder_decode(ts_decoder, encoded.value)
    /\ UNCHANGED <<output_dir, opened, docs, has_sources, record_type, ts_encoder, ts_decoder, json_encoder>>

JsonDefault ==
    /\ json_encoder # NoObject
    /\ \E obj \in JsonObjects :
          /\ call' = [op |-> "default", data |-> obj]
          /\ result' = JsonEncoder_default(json_encoder, obj)
    /\ UNCHANGED <<output_dir, opened, docs, has_sources, record_type, ts_encoder, ts_decoder, json_encoder>>

CodecNext ==
    \/ NewTimestampEncoder
    \/ NewTimestampDecoder
    \/ NewJsonEncoder
    \/ Encode
    \/ Decode
    \/ EncodeDecode
    \/ JsonDefault

CodecSpec == CodecInit /\ [][CodecNext]_vars

(***************************************************************************)
(* File names and paths. A name is a sequence of parts, of which the       *)
(* extension ".json" is one; a path is the directory followed by the name. *)
(***************************************************************************)
Extension == [text |-> ".json"]

Text(t) == [text |-> t]

\* hashlib.sha256(json.dumps(content)).hexdigest()[0:7]: equal contents give
\* equal digests.
ShaDigest(content) == [sha256 |-> content]

\* f"{'_'.join(providers)}_{record_type}_{start}_{end}", the times as hours.
TimesStem(providers, rt, start, end) ==
    [providers |-> providers, record_type |-> rt, start |-> start, end |-> end]

Path(dir, fname) == <<dir>> \o fname

\* n.zfill(nz)
RECURSIVE zfill(_, _)
zfill(chars, nz) == IF Len(chars) >= nz THEN chars ELSE zfill(<<"0">> \o chars, nz)

\* str(path).replace(".json", f"_{suffix}.json")
RECURSIVE ReplaceExtension(_, _)
ReplaceExtension(parts, suffix) ==
    IF parts = <<>> THEN <<>>
    ELSE (IF Head(parts) = Extension
          THEN <<[underscore |-> suffix], Extension>>
          ELSE <<Head(parts)>>) \o ReplaceExtension(Tail(parts), suffix)

\* path.exists(), and path.open("w") followed by json.dump(content, fp).
Exists(files, path) == \E f \in files : f.path = path

WriteFile(fs, path, content) ==
    [files  |-> {f \in fs.files : f.path # path} \cup {[path |-> path, content |-> content]},
     opened |-> Append(fs.opened, path)]

(***************************************************************************)
(* ProviderDataFiles._filename                                             *)
(***************************************************************************)
\* list(p["data"].keys())[0]
FirstKey(p) == CHOOSE k \in DOMAIN p.data : TRUE

\* int(d[time_key]) for p in payloads for d in p["data"][record_type]
RECURSIVE TimesOf(_, _)
TimesOf(payloads, rt) ==
    IF payloads = <<>> THEN {}
    ELSE LET time_key == IF rt = STATUS_CHANGES THEN "event_time" ELSE "start_time"
             recs == Head(payloads).data[rt]
         IN  {recs[i][time_key] : i \in 1..Len(recs)} \cup TimesOf(Tail(payloads), rt)

RECURSIVE ProvidersOf(_, _)
ProvidersOf(payloads, rt) ==
    IF payloads = <<>> THEN {}
    ELSE LET recs == Head(payloads).data[rt]
         IN  {recs[i].provider_name : i \in 1..Len(recs)} \cup ProvidersOf(Tail(payloads), rt)

Min(S) == CHOOSE x \in S : \A y \in S : x <= y
Max(S) == CHOOSE x \in S : \A y \in S : x >= y

\* datetime(start.year, start.month, start.day, start.hour), as hours since the epoch.
ClipToHour(seconds) == seconds \div 3600

\* The payload argument is NoObject when the keyword is not passed.
_filename(rt_arg, payloads, payload) ==
    LET record_types == {FirstKey(payloads[i]) : i \in 1..Len(payloads)}
        rt == IF rt_arg = None /\ Cardinality(record_types) = 1
              THEN CHOOSE t \in record_types : TRUE
              ELSE rt_arg
    IN  IF rt = None
        THEN <<ShaDigest(IF payload # NoObject THEN Dict(payload)
                         ELSE [list |-> TRUE, pages |-> payloads]),
               Extension>>
        ELSE LET times == TimesOf(payloads, rt)
                 start == ClipToHour(Min(times))
                 end   == ClipToHour(Max(times))
             IN  <<TimesStem(ProvidersOf(payloads, rt), rt, start,
                             IF start = end THEN end + 1 ELSE end),
                   Extension>>

(***************************************************************************)
(* ProviderDataFiles.dump_payloads                                         *)
(***************************************************************************)
\* The directory written to, one without ".json" in its name.
DefaultDir == [dir |-> "."]

\* file_name(...): a str is the name whatever the arguments, NoObject stands
\* for the keyword not passed, which leaves self.file_name, that is _filename.
CallFileName(file_name, rt, payloads, payload) ==
    IF file_name = NoObject THEN _filename(rt, payloads, payload) ELSE file_name.parts

\* sources.index(payload), counted from 0: the first place of an equal payload.
IndexOf(sources, payload) ==
    (CHOOSE i \in 1..Len(sources) :
        /\ sources[i] = payload
        /\ \A j \in 1..(i - 1) : sources[j] # payload) - 1

\* sources = [p for p in sources if record_type in p["data"]]
FilterSources(sources, rt) ==
    IF rt \in SCHEMA_TYPES THEN SelectSeq(sources, LAMBDA p : rt \in DOMAIN p.data)
    ELSE sources

\* The multi-file loop from the i-th source on.
RECURSIVE WriteEach(_, _, _, _, _)
WriteEach(sources, i, file_name, rt, fs) ==
    IF i > Len(sources) THEN fs
    ELSE LET payload == sources[i]
             fname   == CallFileName(file_name, rt, sources, payload)
             path    == Path(DefaultDir, fname)
             n       == Digits(IndexOf(sources, payload))
             nz      == Len(Digits(Len(sources)))
             target  == IF IndexOf(sources, payload) > 0 /\ Exists(fs.files, path)
                        THEN ReplaceExtension(path, zfill(n, nz))
                        ELSE path
         IN  WriteEach(sources, i + 1, file_name, rt, WriteFile(fs, target, Dict(payload)))

PathValue(parts) == [type |-> "Path", parts |-> parts]

\* dump_payloads(record_type, *payloads, file_name=.., single_file=..): the
\* payloads are passed one by one (varargs) or as one list. What the call
\* returns, and the directory and the paths opened after it.
dump_payloads(self, rt_arg, varargs, payloads, file_name, single_file, fs) ==
    LET rt == IF rt_arg # None THEN rt_arg ELSE self.record_type
        dict_source == varargs /\ Len(payloads) = 1
        sources == FilterSources(payloads, rt)
    IN  IF Len(sources) = 0
        THEN [result |-> Return(NoObject), fs |-> fs]
        ELSE IF single_file
        THEN LET fname == CallFileName(file_name, rt, sources, NoObject)
                 path  == Path(DefaultDir, fname)
                 content == IF dict_source /\ Len(sources) = 1
                            THEN Dict(sources[1])
                            ELSE [list |-> TRUE, pages |-> sources]
             IN  [result |-> Return(PathValue(path)), fs |-> WriteFile(fs, path, content)]
        ELSE [result |-> Return(PathValue(<<DefaultDir>>)),
              fs     |-> WriteEach(sources, 1, file_name, rt, fs)]

(***************************************************************************)
(* The file writer's state machine.                                        *)
(***************************************************************************)
Providers == {"a", "b"}

\* Seconds since the epoch: two in hour 0, one in hour 1.
RecordTimes == {0, 60, 3600}

StatusChange(provider, t) == [provider_name |-> provider, event_time |-> t]
Trip(provider, t) == [provider_name |-> provider, start_time |-> t]

\* Payloads of one record each.
DumpPayloads ==
    {[version |-> "0.4.0", data |-> [status_changes |-> <<StatusChange(prov, t)>>]] :
        prov \in Providers, t \in RecordTimes}
    \cup {[version |-> "0.4.0", data |-> [trips |-> <<Trip("a", t)>>]] : t \in {0, 3600}}

PayloadLists == UNION {[1..n -> DumpPayloads] : n \in 0..MaxPayloads}

\* file_name keywords: not passed, a name with the extension, a name without.
FileNames ==
    {NoObject,
     [type |-> "str", parts |-> <<Text("payloads"), Extension>>],
     [type |-> "str", parts |-> <<Text("payloads.txt")>>]}

DumpInit ==
    /\ docs = <<>>
    /\ has_sources = FALSE
    /\ record_type \in {None, STATUS_CHANGES}
    /\ call = NoCall
    /\ result = NoResult
    /\ ts_encoder = NoObject
    /\ ts_decoder = NoObject
    /\ json_encoder = NoObject
    /\ output_dir = {}
    /\ opened = <<>>

DumpPayloadsCall ==
    /\ call = NoCall
    /\ \E rt \in RecordTypeArgs, varargs \in BOOLEAN, payloads \in PayloadLists,
          file_name \in FileNames, single_file \in BOOLEAN :
          LET r == dump_payloads(Self, rt, varargs, payloads, file_name, single_file,
                                 [files |-> output_dir, opened |-> opened])
          IN  /\ call' = [op |-> "dump_payloads", record_type |-> rt, varargs |-> varargs,
                          payloads |-> payloads, file_name |-> file_name,
                          single_file |-> single_file]
              /\ result' = r.result
              /\ output_dir' = r.fs.files
              /\ opened' = r.fs.opened
    /\ UNCHANGED <<docs, has_sources, record_type, ts_encoder, ts_decoder, json_encoder>>

DumpNext == DumpPayloadsCall

DumpSpec == DumpInit /\ [][DumpNext]_vars

(***************************************************************************)
(* Properties of the file reader, stated over the documents as read.       *)
(***************************************************************************)
\* Every page of the documents, in (document, page) order.
RECURSIVE PagesInOrder(_)
PagesInOrder(ds) ==
    IF ds = <<>> THEN <<>> ELSE Head(ds).pages \o PagesInOrder(Tail(ds))

\* The pages that carry record type rt, in input order.
Carrying(rt) == SelectSeq(PagesInOrder(docs), LAMBDA p : rt \in DOMAIN p.data)

\* The records of the pages m for rt, page after page.
RECURSIVE RecordsInOrder(_, _)
RecordsInOrder(m, rt) ==
    IF m = <<>> THEN <<>> ELSE Head(m).data[rt] \o RecordsInOrder(Tail(m), rt)

\* The places in m of the pages whose version is not that of m's first page.
Mismatches(m) == {i \in 1..Len(m) : Version(m[i].version) # Version(m[1].version)}

FirstMismatch(m) == CHOOSE i \in Mismatches(m) : \A j \in Mismatches(m) : i <= j

RecordsCall(ops) ==
    /\ call.op \in ops
    /\ call.record_type \in SCHEMA_TYPES
    /\ has_sources

\* C1: load_records and load_dataframe with flatten=True, over pages of which
\* one declares a version other than the first page's, raise
\* UnexpectedVersionError(actual = the first such page's version, expected =
\* the first page's version) and return nothing.
C1_MismatchRaises ==
    (/\ RecordsCall({"load_records", "load_dataframe"})
     /\ call.flatten
     /\ Mismatches(Carrying(call.record_type)) # {})
    => LET m == Carrying(call.record_type)
       IN  /\ result.kind = "raise"
           /\ result.exc = "UnexpectedVersionError"
           /\ result.actual = Version(m[FirstMismatch(m)].version)
           /\ result.expected = Version(m[1].version)

\* Three pages of three versions were merged with load_dataframe, and the
\* call raised: the first and the last mismatch differ.
C1_Witness ==
    /\ RecordsCall({"load_dataframe"})
    /\ call.flatten
    /\ LET m == Carrying(call.record_type)
       IN  /\ Len(m) = 3
           /\ Cardinality({m[i].version : i \in 1..3}) = 3
    /\ result.kind = "raise"

\* C2: load_records with flatten=True over pages of one version returns that
\* version with the concatenation of the pages' record lists in (payload,
\* page, record) order.
C2_MergeInOrder ==
    (/\ RecordsCall({"load_records"})
     /\ call.flatten
     /\ Carrying(call.record_type) # <<>>
     /\ Mismatches(Carrying(call.record_type)) = {})
    => LET m == Carrying(call.record_type)
       IN  /\ result.kind = "return"
           /\ result.value.type = "tuple"
           /\ result.value.version = Version(m[1].version)
           /\ result.value.second = RecordsInOrder(m, call.record_type)

\* Two documents, a skipped page among their pages, and four records merged.
C2_Witness ==
    /\ RecordsCall({"load_records"})
    /\ call.flatten
    /\ Len(docs) = 2
    /\ Len(Carrying(call.record_type)) = 2
    /\ Len(PagesInOrder(docs)) = 3
    /\ result.kind = "return"
    /\ result.value.type = "tuple"
    /\ Len(result.value.second) = 4

\* C3: load_records with flatten=False returns one (Version, record list)
\* entry per page carrying the record type, in input order, whatever the
\* pages' versions are.
C3_UnflattenedPerPage ==
    (/\ RecordsCall({"load_records"})
     /\ ~call.flatten)
    => LET m == Carrying(call.record_type)
       IN  /\ result.kind = "return"
           /\ result.value.type = "list"
           /\ Len(result.value.items) = Len(m)
           /\ \A i \in 1..Len(m) :
                 result.value.items[i] =
                     <<Version(m[i].version), m[i].data[call.record_type]>>

\* Pages of differing versions were returned separately.
C3_Witness ==
    /\ RecordsCall({"load_records"})
    /\ ~call.flatten
    /\ Mismatches(Carrying(call.record_type)) # {}
    /\ result.kind = "return"
    /\ Len(result.value.items) = 3

\* C4: when no page carries the record type, load_records and load_dataframe
\* return an empty list and raise nothing, with flatten and without.
C4_EmptyIsNoError ==
    (/\ RecordsCall({"load_records", "load_dataframe"})
     /\ Carrying(call.record_type) = <<>>)
    => result = Return(List(<<>>))

\* Documents were read, none of their pages carries the record type, and the
\* flattening load_dataframe returned.
C4_Witness ==
    /\ RecordsCall({"load_dataframe"})
    /\ call.flatten
    /\ Len(PagesInOrder(docs)) >= 2
    /\ Carrying(call.record_type) = <<>>
    /\ result.kind = "return"

\* C5: extraction for a record type keeps exactly the pages whose data has
\* the type's key, those inside list payloads included, and raises nothing;
\* the version a flattening call reports or expects is the first kept page's.
C5_SkipsOtherTypes ==
    /\ (/\ RecordsCall({"load_payloads"}))
       => /\ result.kind = "return"
          /\ PagesInOrder(result.value.items) = Carrying(call.record_type)
    /\ (/\ RecordsCall({"load_records", "load_dataframe"})
        /\ call.flatten
        /\ Carrying(call.record_type) # <<>>)
       => LET first == Version(Carrying(call.record_type)[1].version)
          IN  \/ result.kind = "return" /\ result.value.version = first
              \/ /\ result.kind = "raise"
                 /\ result.exc = "UnexpectedVersionError"
                 /\ result.expected = first

\* The first page of a list payload lacks the record type and declares
\* another version than the first page that carries it; the merge returned.
C5_Witness ==
    /\ RecordsCall({"load_records"})
    /\ call.flatten
    /\ Len(docs) >= 1
    /\ docs[1].list
    /\ Len(docs[1].pages) >= 2
    /\ call.record_type \notin DOMAIN docs[1].pages[1].data
    /\ Carrying(call.record_type) # <<>>
    /\ docs[1].pages[1].version # Carrying(call.record_type)[1].version
    /\ result.kind = "return"
    /\ result.value.type = "tuple"

(***************************************************************************)
(* Properties of the codecs.                                               *)
(***************************************************************************)
\* C6: TimestampEncoder.encode in "unix" mode returns the decimal string of
\* the seconds since the epoch when its version is below 0.3.0, and of the
\* whole milliseconds since the epoch otherwise; it does not fail.
C6_UnixEncoding ==
    (/\ call.op = "encode"
     /\ ts_encoder.date_format = "unix")
    => result = Return(Str(IF VersionLt(ts_encoder.version, Version("0.3.0"))
                           THEN SecondsText(call.data)
                           ELSE MillisText(call.data)))

\* C7: TimestampDecoder.decode of a number, or of a string of digits, reads
\* it as seconds since the epoch when its version is below 0.3.0 and as
\* milliseconds otherwise. Stated for the whole seconds of the date-time
\* returned, which every reading of the claim fixes.
C7_DecodeNumeric ==
    (/\ call.op = "decode"
     /\ \/ call.data.type \in {"int", "float"}
        \/ call.data.type = "str" /\ AllDigits(call.data.chars))
    => LET n == CASE call.data.type = "int" -> call.data.n
                  [] call.data.type = "float" -> call.data.whole
                  [] OTHER -> NumberOf(call.data.chars)
       IN  /\ result.kind = "return"
           /\ result.value.sec = IF VersionLt(ts_decoder.version, Version("0.3.0"))
                                 THEN n
                                 ELSE n \div 1000

\* C8: decode(encode(t)) with an encoder and a decoder of one version is t,
\* for every date format and every t truncated to milliseconds.
C8_RoundTrip ==
    call.op = "encode_decode" => result = Return(call.data)

\* C9: no codec is ever bound to a version below the floor: constructing a
\* TimestampEncoder, TimestampDecoder or JsonEncoder with one raises
\* UnsupportedVersionError, and with a version above the ceiling does not.
C9_NoCodecBelowFloor ==
    /\ \A codec \in {ts_encoder, ts_decoder, json_encoder} :
          codec # NoObject => ~Unsupported(codec.version)
    /\ call.op \in {"TimestampEncoder", "TimestampDecoder", "JsonEncoder"}
       => /\ Unsupported(VersionKwarg(call.version))
             => result.kind = "raise" /\ result.exc = "UnsupportedVersionError"
          /\ Deprecated(VersionKwarg(call.version)) => result.kind = "return"

\* C10: the timestamp encoder a JsonEncoder delegates to is bound to the
\* JsonEncoder's own version and date_format.
C10_JsonEncoderContext ==
    json_encoder # NoObject
    => /\ json_encoder.timestamp_encoder.version = json_encoder.version
       /\ json_encoder.timestamp_encoder.date_format = json_encoder.date_format

\* C11: TimestampDecoder.decode tries the numeric reading first and hands
\* the value to the textual parser only when that reading fails: a number,
\* or a string of digits, is decoded as a number and never reaches the
\* textual parser, and a text that is no number is decoded by the textual
\* parser instead of raising.
C11_NumericBeforeText ==
    call.op = "decode"
    => IF \/ call.data.type \in {"int", "float"}
          \/ call.data.type = "str" /\ AllDigits(call.data.chars)
       THEN result.kind = "return"
       ELSE result.kind # "raise"

\* C13: load_payloads with flatten=False returns the documents as read, one
\* element per document, a list document as that list, with a record type
\* filter and without; with flatten=True it returns the page dicts in source
\* order. Stated for documents that are not empty and whose pages all carry
\* the record type asked for, so that a filter has nothing to remove.
C13_UnflattenedKeepsSources ==
    (/\ call.op = "load_payloads"
     /\ has_sources
     /\ \A d \in 1..Len(docs) : docs[d].pages # <<>>
     /\ call.record_type # None
        => \A d \in 1..Len(docs) : \A k \in 1..Len(docs[d].pages) :
              call.record_type \in DOMAIN docs[d].pages[k].data)
    => /\ result.kind = "return"
       /\ result.value.type = "list"
       /\ IF call.flatten
          THEN result.value.items = DictsOf(PagesInOrder(docs))
          ELSE result.value.items = docs

(***************************************************************************)
(* Properties of the file writer.                                          *)
(***************************************************************************)
\* The payloads of the call that pass its record type filter.
SourcesOfCall ==
    FilterSources(call.payloads,
                  IF call.record_type # None THEN call.record_type ELSE record_type)

\* C12: dump_payloads with single_file=False writes each payload that passes
\* the record type filter to a file of its own: the paths opened are as many as
\* the payloads and differ from one another, and after the call the file at
\* the k-th path holds the k-th payload.
C12_OneFilePerPayload ==
    (call.op = "dump_payloads" /\ ~call.single_file)
    => LET sources == SourcesOfCall
       IN  /\ Len(opened) = Len(sources)
           /\ \A j, k \in 1..Len(opened) : j # k => opened[j] # opened[k]
           /\ \A k \in 1..Len(opened) :
                 [path |-> opened[k], content |-> Dict(sources[k])] \in output_dir

====
